---- MODULE Spec2Model ----
(***************************************************************************)
(* Model of the multi-layer audio engine (src/audio-engine.js, class       *)
(* AudioEngine).                                                           *)
(*                                                                         *)
(* Time is counted in ticks of 50 ms, the length of the ramp that          *)
(* setLayerVolume and setMasterVolume schedule.  Times are kept relative   *)
(* to "now": a timer's `due` and a ramp event's `t` are the ticks left.    *)
(* Gain values are integers on a scale where GainOne stands for 1.0.       *)
(* Sources (media elements, buffer sources, oscillators) live in numbered  *)
(* slots; 0 stands for null.  A source that has ended and that no layer    *)
(* refers to is garbage and its slot is free again.  The field atDispose   *)
(* of a source records that it was bound to a layer, and started, when     *)
(* dispose() ran.                                                          *)
(* A sound name "category/name" is                                         *)
(* kept as the pair <<category, name>>; no catalog name contains "/", so   *)
(* split("/") gives the pair back.                                         *)
(***************************************************************************)
EXTENDS Integers, Sequences, FiniteSets, TLC

\* ---------------------------------------------------------------- bounds
MaxSources == 3
MaxContexts == 2
MaxTimers == 2
MaxPending == 2
MaxCommands == 5

\* ------------------------------------------------------------- constants
GainOne == 100
RampTicks == 1
FadeDefault == 20
FadeShort == 2
MasterDefault == 70
LayerDefault == 60
SampleRateDefault == 44100

LayerIds == {"nature", "noise"}
NoiseColors == {"white", "pink", "brown"}
NoSound == <<>>
Tone220 == <<"tone", "220Hz">>

\* The sounds a caller asks for: a generated colour, a file-backed catalog
\* entry, and a name the catalog does not hold.
SoundArgs == {<<"noise", "white">>, <<"nature", "rain">>, <<"nature", "nosuch">>}

\* Volume arguments, inside and outside [0, 1].
VolumeArgs == {LayerDefault, 150}

FadeDurations == {FadeShort, FadeDefault}

\* Sample rates, in Hz: of the audio hardware, and given to updateConfig.
SampleRates == {SampleRateDefault, 48000}

VARIABLES
    isInitialized,  \* this.isInitialized
    audioContext,   \* this.audioContext: 0 is null, else the context's number
    sampleRate,     \* this.audioContext.sampleRate, 0 while audioContext is null
    masterGain,     \* this.masterGain.gain, or NoParam while masterGain is null
    layers,         \* this.layers: function from the ids present to layer records
    noiseGenerators,\* this.noiseGenerators: function from cached colours to buffer numbers
    config,         \* this.config
    sources,        \* the source objects that are alive, by slot
    buffers,        \* the noise buffers created so far: the length of each, in samples
    timers,         \* pending setTimeout callbacks of fadeOut, in firing order
    pendingResume,  \* loadAndPlayAudio calls suspended on `await this.resume()`
    genCount,       \* per colour, createNoiseBuffer calls since the cache was last cleared
    lastCmd,        \* per layer id, the last command issued on it
    watch,          \* per layer id, the stop that directly followed a completed play
    issued,         \* number of commands the caller has issued
    snap,           \* what was playing when stopAll was called with no play pending,
                    \* and whether playAll followed
    last,           \* the call that made the last step, if it threw, returned a
                    \* value, or returned early (for want of the layer, or
                    \* initialize() on an initialized engine)
    preset,         \* the loadPreset call of the application that is under way
    lastIssued      \* the last command issued, if it was setLayerVolume on a
                    \* registered layer or stopAll; the queries leave it alone

vars == <<isInitialized, audioContext, sampleRate, masterGain, layers, noiseGenerators,
          config, sources, buffers, timers, pendingResume, genCount,
          lastCmd, watch, issued, snap, last, preset, lastIssued>>

\* ----------------------------------------------------------- AudioParam
NoParam == [value |-> -1, events |-> <<>>, null |-> TRUE]

Param(v) == [value |-> v, events |-> <<>>]

\* A cancelScheduledValues that drops nothing.
CancelNothing(p) == p

\* cancelScheduledValues(currentTime): every event at or after now is dropped.
CancelScheduledValues(p) == [p EXCEPT !.events = <<>>]

\* setValueAtTime(v, currentTime), and the `value` setter, which the
\* Web Audio API defines as setValueAtTime(v, currentTime).
SetValueAtTime(p, v) == [p EXCEPT !.value = v]

\* linearRampToValueAtTime(v, currentTime + d)
LinearRampToValueAtTime(p, v, d, who) ==
    [p EXCEPT !.events = Append(@, [target |-> v, t |-> d, by |-> who])]

\* The parameter d ticks later (d at most the time left of its first event):
\* the value moves linearly towards the first event's target.
ParamAfter(p, d) ==
    IF p.events = <<>> THEN p
    ELSE LET e == Head(p.events) IN
         IF d >= e.t
         THEN [p EXCEPT !.value = e.target, !.events = Tail(p.events)]
         ELSE [p EXCEPT !.value = p.value + ((e.target - p.value) * d) \div e.t,
                        !.events = <<[e EXCEPT !.t = e.t - d]>> \o Tail(p.events)]

\* ------------------------------------------------------------- catalog
\* this.audioLibrary[soundType]?.[soundName]: "file" for a path, "null" for
\* a generated colour or a missing entry.
AudioPath(snd) ==
    IF snd[1] = "nature" /\ snd[2] \in {"rain", "forest", "ocean", "stream", "birds"} THEN "file"
    ELSE IF snd[1] = "music" /\ snd[2] \in {"piano", "ambient", "guitar", "strings", "lofi"} THEN "file"
    ELSE IF snd[1] = "noise" /\ snd[2] \in {"fan", "cafe"} THEN "file"
    ELSE IF snd[1] = "ambient" /\ snd[2] \in {"space", "temple", "wind", "tibetan", "meditation"} THEN "file"
    ELSE "null"

IsGeneratedNoise(snd) == snd[1] = "noise" /\ snd[2] \in NoiseColors

\* ------------------------------------------------------------- helpers
Has(ls, L) == L \in DOMAIN ls

SetLayer(ls, L, rec) == [x \in (DOMAIN ls) \cup {L} |-> IF x = L THEN rec ELSE ls[x]]

EmptyMap == [x \in {} |-> 0]

\* The engine fields that stopLayer, fadeOut and the binders change.
Eng(ls, tm, srcs) == [layers |-> ls, timers |-> tm, sources |-> srcs]

\* A free slot of the source table, and the first free slot (0 if none).
Free == [kind |-> "free", layer |-> "", ctx |-> 0, state |-> "none",
         buffer |-> 0, color |-> "", loop |-> FALSE, atDispose |-> FALSE]

FreeSlots(srcs) == {i \in DOMAIN srcs : srcs[i] = Free}

Alloc(srcs) ==
    IF FreeSlots(srcs) = {} THEN 0
    ELSE CHOOSE i \in FreeSlots(srcs) : \A j \in FreeSlots(srcs) : i <= j

\* Garbage collection: an ended source that no layer field refers to.
Collect(srcs, ls) ==
    [i \in DOMAIN srcs |->
        IF /\ srcs[i].state \in {"stopped", "failed"}
           /\ \A L \in DOMAIN ls :
                 i \notin {ls[L].audioElement, ls[L].noiseSource, ls[L].sourceNode}
        THEN Free ELSE srcs[i]]

\* A new source is bound on L: the teardown timers pending on L were
\* installed for an earlier source.
Supersede(tm, L) ==
    [i \in 1..Len(tm) |-> IF tm[i].layer = L THEN [tm[i] EXCEPT !.superseded = TRUE] ELSE tm[i]]

\* setTimeout(callback, d): callbacks run in order of their due time, and
\* in order of installation among equal due times.
RECURSIVE InsertTimer(_, _)
InsertTimer(tm, x) ==
    IF tm = <<>> THEN <<x>>
    ELSE IF Head(tm).due <= x.due THEN <<Head(tm)>> \o InsertTimer(Tail(tm), x)
    ELSE <<x>> \o tm

\* pause() on a media element: an element whose play() promise is still
\* pending has that promise rejected (AbortError), so the catch block of
\* loadAndPlayAudio is still to run for it.
Pause(s) ==
    IF s.state = "starting" THEN [s EXCEPT !.state = "aborting"]
    ELSE IF s.state = "running" THEN [s EXCEPT !.state = "stopped"]
    ELSE s

\* stop() on a buffer source or an oscillator.
StopNode(s) == IF s.state = "running" THEN [s EXCEPT !.state = "stopped"] ELSE s

HasStop(s) == s.kind \in {"buffer", "osc"}

\* A teardown that stops the sources and forgets to clear currentSound.
StopLayerKeepSound(e, L) ==
    IF ~Has(e.layers, L) THEN e
    ELSE LET lay == e.layers[L]
             s1 == IF lay.audioElement # 0
                   THEN [e.sources EXCEPT ![lay.audioElement] = Pause(@)]
                   ELSE e.sources
             s2 == IF lay.noiseSource # 0
                   THEN [s1 EXCEPT ![lay.noiseSource] = StopNode(@)]
                   ELSE s1
         IN [e EXCEPT !.sources = s2,
                      !.layers = [@ EXCEPT ![L] =
                          [lay EXCEPT !.audioElement = 0, !.noiseSource = 0,
                                      !.sourceNode = 0, !.isPlaying = FALSE]]]

\* _stopLayerImmediately(layerId)
StopLayerImmediately(e, L) ==
    IF ~Has(e.layers, L) THEN e
    ELSE LET lay == e.layers[L]
             s1 == IF lay.audioElement # 0
                   THEN [e.sources EXCEPT ![lay.audioElement] = Pause(@)]
                   ELSE e.sources
             s2 == IF lay.noiseSource # 0
                   THEN [s1 EXCEPT ![lay.noiseSource] = StopNode(@)]
                   ELSE s1
             s3 == IF lay.sourceNode # 0 /\ HasStop(s2[lay.sourceNode])
                   THEN [s2 EXCEPT ![lay.sourceNode] = StopNode(@)]
                   ELSE s2
         IN [e EXCEPT !.sources = s3,
                      !.layers = [@ EXCEPT ![L] =
                          [lay EXCEPT !.audioElement = 0, !.noiseSource = 0,
                                      !.sourceNode = 0, !.currentSound = NoSound,
                                      !.isPlaying = FALSE]]]

\* fadeIn(layerId)
FadeIn(e, L, cfg) ==
    IF ~Has(e.layers, L) THEN e
    ELSE LET g0 == e.layers[L].gain
             g1 == CancelScheduledValues(g0)
             g2 == SetValueAtTime(g1, 0)
             g3 == LinearRampToValueAtTime(g2, e.layers[L].volume, cfg.fadeDuration, "fadeIn")
         IN [e EXCEPT !.layers[L].gain = g3]

\* fadeOut(layerId, callback); the callback of stopLayer is the teardown.
\* The timer records the context of the layer it was installed for.
FadeOut(e, L, cfg) ==
    IF ~Has(e.layers, L) THEN e
    ELSE LET g0 == e.layers[L].gain
             g1 == CancelScheduledValues(g0)
             g2 == SetValueAtTime(g1, g0.value)
             g3 == LinearRampToValueAtTime(g2, 0, cfg.fadeDuration, "fadeOut")
         IN [e EXCEPT !.layers[L].gain = g3,
                      !.timers = InsertTimer(@, [layer |-> L, due |-> cfg.fadeDuration,
                                                 superseded |-> FALSE,
                                                 ctx |-> e.layers[L].ctx])]

\* stopLayer(layerId)
StopLayer(e, L, cfg) ==
    IF ~Has(e.layers, L) THEN e
    ELSE IF cfg.enableCrossfade /\ e.layers[L].isPlaying
         THEN FadeOut(e, L, cfg)
         ELSE StopLayerImmediately(e, L)

\* A generateTone that binds the oscillator and leaves the layer marked as
\* not playing.
GenerateToneUnmarked(e, L, ctx) ==
    IF ~Has(e.layers, L) THEN e
    ELSE LET id == Alloc(e.sources)
             osc == [kind |-> "osc", layer |-> L, ctx |-> ctx, state |-> "running",
                     buffer |-> 0, color |-> "", loop |-> FALSE, atDispose |-> FALSE]
         IN [e EXCEPT !.sources = [@ EXCEPT ![id] = osc],
                      !.timers = Supersede(@, L),
                      !.layers[L] = [@ EXCEPT !.sourceNode = id,
                                              !.currentSound = Tone220]]

\* generateTone(layerId, 220)
GenerateTone(e, L, ctx) ==
    IF ~Has(e.layers, L) THEN e
    ELSE LET id == Alloc(e.sources)
             osc == [kind |-> "osc", layer |-> L, ctx |-> ctx, state |-> "running",
                     buffer |-> 0, color |-> "", loop |-> FALSE, atDispose |-> FALSE]
         IN [e EXCEPT !.sources = [@ EXCEPT ![id] = osc],
                      !.timers = Supersede(@, L),
                      !.layers[L] = [@ EXCEPT !.sourceNode = id,
                                              !.currentSound = Tone220,
                                              !.isPlaying = TRUE]]

\* generateAndPlayNoise(layerId, noiseType), run after the stopLayer of
\* loadAndPlayAudio; `cache` is noiseGenerators after the get-or-create.
BindNoise(e, L, color, cache, ctx, cfg) ==
    IF ~Has(e.layers, L) THEN e
    ELSE LET id == Alloc(e.sources)
             src == [kind |-> "buffer", layer |-> L, ctx |-> ctx, state |-> "running",
                     buffer |-> cache[color], color |-> color, loop |-> TRUE,
                     atDispose |-> FALSE]
             e1 == [e EXCEPT !.sources = [@ EXCEPT ![id] = src],
                             !.timers = Supersede(@, L),
                             !.layers[L] = [@ EXCEPT !.noiseSource = id,
                                                     !.sourceNode = id,
                                                     !.currentSound = <<"noise", color>>,
                                                     !.isPlaying = TRUE]]
         IN IF cfg.enableCrossfade THEN FadeIn(e1, L, cfg) ELSE e1

\* The try block of loadAndPlayAudio up to `await audio.play()`.
BindFile(e, L, snd, ctx, cfg) ==
    LET id == Alloc(e.sources)
        src == [kind |-> "media", layer |-> L, ctx |-> ctx, state |-> "starting",
                buffer |-> 0, color |-> "", loop |-> cfg.loopLayers, atDispose |-> FALSE]
        e1 == [e EXCEPT !.sources = [@ EXCEPT ![id] = src],
                        !.timers = Supersede(@, L),
                        !.layers[L] = [@ EXCEPT !.audioElement = id,
                                                !.sourceNode = id,
                                                !.currentSound = snd]]
    IN IF cfg.enableCrossfade THEN FadeIn(e1, L, cfg) ELSE e1

\* createNoiseBuffer(noiseType) in a context that runs at `rate`: the length
\* of the buffer, in samples (the samples themselves are not modelled).
CreateNoiseBuffer(noiseType, rate) == rate * 2

\* A get-or-create that forgets to look: the buffer is generated on every play.
NoiseCacheAlways(cache, color, nbuf) ==
    [c \in (DOMAIN cache) \cup {color} |-> IF c = color THEN nbuf + 1 ELSE cache[c]]

\* The get-or-create of generateAndPlayNoise on this.noiseGenerators.
NoiseCache(cache, color, nbuf) ==
    IF color \in DOMAIN cache THEN cache
    ELSE [c \in (DOMAIN cache) \cup {color} |-> IF c = color THEN nbuf + 1 ELSE cache[c]]

\* The layers stopAll stops, and the layers playAll plays.
PlayingLayers(ls) == {L \in DOMAIN ls : ls[L].isPlaying}

ResumableLayers(ls) == {L \in DOMAIN ls : ls[L].currentSound # NoSound /\ ~ls[L].isPlaying}

\* this.layers.forEach(...) of stopAll; the layers are visited in a fixed
\* order, the effect on one layer being independent of the others.
RECURSIVE StopEach(_, _, _)
StopEach(e, S, cfg) ==
    IF S = {} THEN e
    ELSE LET L == CHOOSE x \in S : TRUE
         IN StopEach(StopLayer(e, L, cfg), S \ {L}, cfg)

\* this.layers.forEach(...) of playAll: one suspended loadAndPlayAudio per layer.
RECURSIVE IssueEach(_, _, _)
IssueEach(q, S, ls) ==
    IF S = {} THEN q
    ELSE LET L == CHOOSE x \in S : TRUE
         IN IssueEach(Append(q, [layer |-> L, snd |-> ls[L].currentSound]), S \ {L}, ls)

\* ------------------------------------------------- bookkeeping of commands
NoWatch == [on |-> FALSE, left |-> 0]

NoSnap == [phase |-> "idle", was |-> [L \in LayerIds |-> [sound |-> NoSound, volume |-> 0]]]

NoCmd == [op |-> "none", snd |-> NoSound]

\* Plays on L that have been issued and have not run to their end.
PendingOn(L, q, srcs) ==
    \/ \E i \in 1..Len(q) : q[i].layer = L
    \/ \E i \in DOMAIN srcs : srcs[i].layer = L /\ srcs[i].state \in {"starting", "aborting"}

\* A command on L other than play and stop.
Touch(lc) == IF lc.op = "played" THEN [lc EXCEPT !.op = "play"] ELSE lc

\* The last play on L has run to its end with nothing issued on L since.
Completed(lc, L, q, srcs, ls) ==
    IF lc.op = "play" /\ ~PendingOn(L, q, srcs) /\ Has(ls, L) /\ ls[L].isPlaying
    THEN [lc EXCEPT !.op = "played"] ELSE lc

\* Slots a play of snd may take: its source, and for a file the fallback tone.
Needs(snd) == IF IsGeneratedNoise(snd) \/ AudioPath(snd) = "null" THEN 1 ELSE 2

RECURSIVE NeedsAll(_)
NeedsAll(q) == IF q = <<>> THEN 0 ELSE Needs(Head(q).snd) + NeedsAll(Tail(q))

\* Slots that the plays issued so far may still take.
Reserved(q, srcs) ==
    NeedsAll(q) + Cardinality({i \in DOMAIN srcs : srcs[i].state \in {"starting", "aborting"}})

Room(q, srcs) == Cardinality(FreeSlots(srcs)) - Reserved(q, srcs)

\* ------------------------------------------------- calls and their results
\* A call that returned null, or returned nothing.
NoResult == [none |-> TRUE]

NoLast == [op |-> "none", layer |-> "", v |-> 0, raised |-> FALSE, result |-> NoResult]

\* No command worth remembering has been issued last.
NoIssued == [op |-> "none", layer |-> "", v |-> 0]

\* A call op(L, v) that returned res, and one that threw.
Returned(op, L, v, res) == [op |-> op, layer |-> L, v |-> v, raised |-> FALSE, result |-> res]

Raised(op, L, v) == [op |-> op, layer |-> L, v |-> v, raised |-> TRUE, result |-> NoResult]

\* A getLayerInfo that answers for an id it does not know.
LayerInfoAny(ls, L) == [none |-> FALSE, id |-> L]

\* getLayerInfo(layerId)
LayerInfo(ls, L) ==
    IF ~Has(ls, L) THEN NoResult
    ELSE [none |-> FALSE, id |-> L, isPlaying |-> ls[L].isPlaying,
          currentSound |-> ls[L].currentSound, volume |-> ls[L].volume]

\* analyserNode.frequencyBinCount: half of the fftSize that createLayer sets.
FrequencyBinCount == 128

\* getAnalyserData(layerId): the samples themselves are not modelled.
AnalyserData(ls, L) ==
    IF ~Has(ls, L) \/ ~ls[L].isPlaying THEN NoResult
    ELSE [none |-> FALSE, length |-> FrequencyBinCount]

\* The layer object that createLayer builds.
NewLayer(v, ctx) ==
    [audioElement |-> 0, sourceNode |-> 0, noiseSource |-> 0,
     gain |-> Param(v), currentSound |-> NoSound, isPlaying |-> FALSE,
     volume |-> v, ctx |-> ctx]

\* A setLayerVolume that ramps whether or not the layer is playing.
VolumeGainRamp(lay, v) ==
    LinearRampToValueAtTime(
        SetValueAtTime(CancelScheduledValues(lay.gain), lay.gain.value),
        v, RampTicks, "setVolume")

\* A setLayerVolume that ramps only while crossfade is enabled, and over
\* fadeDuration.
VolumeGainCrossfade(lay, v) ==
    IF lay.isPlaying /\ config.enableCrossfade
    THEN LinearRampToValueAtTime(
             SetValueAtTime(CancelScheduledValues(lay.gain), lay.gain.value),
             v, config.fadeDuration, "setVolume")
    ELSE SetValueAtTime(lay.gain, v)

\* The gain after the body of setLayerVolume.
VolumeGain(lay, v) ==
    IF lay.isPlaying
    THEN LinearRampToValueAtTime(
             SetValueAtTime(CancelScheduledValues(lay.gain), lay.gain.value),
             v, RampTicks, "setVolume")
    ELSE SetValueAtTime(lay.gain, v)

\* ----------------------------------------------- presets of the application
\* this.layers of the application, in the order loadPreset visits them,
\* restricted to LayerIds.
LayerOrder == <<"nature", "noise">>

\* this.presets, restricted to LayerIds; "" stands for sound: null.
Presets ==
    [p \in {"rain-study", "nature-retreat"} |->
        IF p = "rain-study"
        THEN [nature |-> [sound |-> "rain", volume |-> 70],
              noise |-> [sound |-> "white", volume |-> 20]]
        ELSE [nature |-> [sound |-> "forest", volume |-> 60],
              noise |-> [sound |-> "", volume |-> 0]]]

NoPlay == [layer |-> "", snd |-> NoSound]

\* No loadPreset has been called.  While one is under way: `todo` are the
\* layers still to visit, `pos` the place in pendingResume of the play it
\* awaits (0 once that play runs), `slot` the media element whose play()
\* that play awaits, `raced` whether a play issued earlier was still pending
\* when loadPreset was called.
NoPreset == [phase |-> "idle", name |-> "", todo |-> <<>>, pos |-> 0, slot |-> 0,
             raced |-> FALSE]

\* loadPreset has returned, and loadPreset has thrown.
Finished(pr) == [NoPreset EXCEPT !.phase = "done", !.name = pr.name, !.raced = pr.raced]

Failed(pr) == [NoPreset EXCEPT !.phase = "failed", !.name = pr.name, !.raced = pr.raced]

\* The body of the loop of loadPreset from the layers `todo` on, up to the
\* first `await this.playLayer(...)`: the volume of each layer visited is set
\* by createLayer or setLayerVolume, and `play` is the play awaited (NoPlay
\* if the loop ran to its end).
RECURSIVE ApplyPreset(_, _, _, _)
ApplyPreset(ls, todo, p, ctx) ==
    IF todo = <<>> THEN [layers |-> ls, todo |-> <<>>, play |-> NoPlay]
    ELSE LET L == Head(todo)
             c == Presets[p][L]
             ls1 == IF ~Has(ls, L)
                    THEN SetLayer(ls, L, NewLayer(c.volume, ctx))
                    ELSE [ls EXCEPT ![L] = [@ EXCEPT !.volume = c.volume,
                                                     !.gain = VolumeGain(ls[L], c.volume)]]
         IN IF c.sound # ""
            THEN [layers |-> ls1, todo |-> Tail(todo),
                  play |-> [layer |-> L, snd |-> <<L, c.sound>>]]
            ELSE ApplyPreset(ls1, Tail(todo), p, ctx)

\* ------------------------------------------------------------------ Init
Init ==
    /\ isInitialized = FALSE
    /\ audioContext = 0
    /\ sampleRate = 0
    /\ masterGain = NoParam
    /\ layers = EmptyMap
    /\ noiseGenerators = EmptyMap
    /\ config = [fadeDuration |-> FadeDefault, enableCrossfade |-> TRUE, loopLayers |-> TRUE,
                 sampleRate |-> SampleRateDefault]
    /\ sources = [i \in 1..MaxSources |-> Free]
    /\ buffers = <<>>
    /\ timers = <<>>
    /\ pendingResume = <<>>
    /\ genCount = [c \in NoiseColors |-> 0]
    /\ lastCmd = [L \in LayerIds |-> NoCmd]
    /\ watch = [L \in LayerIds |-> NoWatch]
    /\ snap = NoSnap
    /\ issued = 0
    /\ last = NoLast
    /\ preset = NoPreset
    /\ lastIssued = NoIssued

\* --------------------------------------------------------------- actions
\* The caller issues one more command.  loadPreset is the last command of
\* a behaviour: none is issued while it runs or after it.
Command ==
    /\ issued < MaxCommands
    /\ issued' = issued + 1
    /\ preset.phase = "idle"

\* A command of the engine, which leaves the application's loadPreset alone.
EngineCommand ==
    /\ Command
    /\ UNCHANGED preset

\* An initialize() that builds a context and a master gain on every call.
InitializeAnew(rate) ==
    /\ EngineCommand
    /\ audioContext < MaxContexts
    /\ audioContext' = audioContext + 1
    /\ sampleRate' = rate
    /\ masterGain' = Param(MasterDefault)
    /\ isInitialized' = TRUE
    /\ snap' = NoSnap
    /\ lastIssued' = NoIssued
    /\ last' = NoLast
    /\ UNCHANGED <<layers, noiseGenerators, config, sources, buffers, timers,
                   pendingResume, genCount, lastCmd, watch>>

\* initialize() on a device whose audio hardware runs at `rate` samples per
\* second: new AudioContext() takes the rate of the device.
InitializeAt(rate) ==
    /\ EngineCommand
    /\ IF isInitialized
       THEN UNCHANGED <<isInitialized, audioContext, sampleRate, masterGain>>
       ELSE /\ audioContext < MaxContexts
            /\ audioContext' = audioContext + 1
            /\ sampleRate' = rate
            /\ masterGain' = Param(MasterDefault)
            /\ isInitialized' = TRUE
    /\ snap' = NoSnap
    /\ lastIssued' = NoIssued
    /\ last' = IF isInitialized THEN Returned("initialize", "", 0, NoResult) ELSE NoLast
    /\ UNCHANGED <<layers, noiseGenerators, config, sources, buffers, timers,
                   pendingResume, genCount, lastCmd, watch>>

\* initialize() on a device that runs at the rate the configuration names.
Initialize == InitializeAt(SampleRateDefault)

\* A createLayer that builds a layer whether or not the id is registered.
CreateLayerAnew(ls, L, v, ctx) == SetLayer(ls, L, NewLayer(v, ctx))

\* The registry after createLayer(layerId, volume) on an initialized engine.
CreateLayerIn(ls, L, v, ctx) ==
    IF Has(ls, L) THEN ls ELSE SetLayer(ls, L, NewLayer(v, ctx))

\* createLayer(layerId, volume); before initialize() it throws.
CreateLayer(L, v) ==
    /\ EngineCommand
    /\ layers' = IF isInitialized THEN CreateLayerIn(layers, L, v, audioContext)
                 ELSE layers
    /\ last' = IF isInitialized THEN Returned("createLayer", L, v, LayerInfo(layers', L))
               ELSE Raised("createLayer", L, v)
    /\ lastCmd' = [lastCmd EXCEPT ![L] = Touch(@)]
    /\ watch' = [watch EXCEPT ![L] = NoWatch]
    /\ snap' = NoSnap
    /\ lastIssued' = NoIssued
    /\ UNCHANGED <<isInitialized, audioContext, sampleRate, masterGain, noiseGenerators, config,
                   sources, buffers, timers, pendingResume, genCount>>

\* loadAndPlayAudio(layerId, soundType, soundName) up to `await this.resume()`.
PlayIssue(L, snd) ==
    /\ EngineCommand
    /\ Len(pendingResume) < MaxPending
    /\ Len(timers) + Len(pendingResume) < MaxTimers
    /\ Needs(snd) <= Room(pendingResume, sources)
    /\ pendingResume' = Append(pendingResume, [layer |-> L, snd |-> snd])
    /\ lastCmd' = [lastCmd EXCEPT ![L] = [op |-> "play", snd |-> snd]]
    /\ watch' = [watch EXCEPT ![L] = NoWatch]
    /\ snap' = NoSnap
    /\ lastIssued' = NoIssued
    /\ last' = NoLast
    /\ UNCHANGED <<isInitialized, audioContext, sampleRate, masterGain, layers, noiseGenerators,
                   config, sources, buffers, timers, genCount>>

\* The loadPreset under way after the play at the head of pendingResume has
\* run its body: `threw` if the body threw, `slot` the media element whose
\* play() it awaits (0 if it returned).
PresetAfterBody(pr, threw, slot) ==
    IF pr.phase # "run" \/ pr.pos = 0 THEN pr
    ELSE IF pr.pos > 1 THEN [pr EXCEPT !.pos = @ - 1]
    ELSE IF threw THEN Failed(pr)
    ELSE [pr EXCEPT !.pos = 0, !.slot = slot]

\* The loadPreset under way after the play() promise of source s has settled.
PresetAfterPlay(pr, s) ==
    IF pr.phase = "run" /\ pr.slot = s THEN [pr EXCEPT !.slot = 0] ELSE pr

\* loadAndPlayAudio from the layer lookup to its return or to `await audio.play()`.
PlayResume ==
    /\ UNCHANGED issued
    /\ pendingResume # <<>>
    /\ LET p == Head(pendingResume)
           L == p.layer
           q == Tail(pendingResume)
           e0 == Eng(layers, timers, sources)
       IN IF ~Has(layers, L)
          THEN /\ pendingResume' = q
               /\ last' = Raised("playBody", L, 0)
               /\ preset' = PresetAfterBody(preset, TRUE, 0)
               /\ UNCHANGED <<layers, timers, sources, noiseGenerators, buffers,
                              genCount, lastCmd>>
          ELSE LET e1 == StopLayer(e0, L, config)
                   cache == NoiseCache(noiseGenerators, p.snd[2], Len(buffers))
                   e2 == IF IsGeneratedNoise(p.snd)
                         THEN BindNoise(e1, L, p.snd[2], cache, audioContext, config)
                         ELSE IF AudioPath(p.snd) = "null"
                         THEN GenerateTone(e1, L, audioContext)
                         ELSE BindFile(e1, L, p.snd, audioContext, config)
               IN /\ pendingResume' = q
                  /\ layers' = e2.layers
                  /\ timers' = e2.timers
                  /\ sources' = Collect(e2.sources, e2.layers)
                  /\ IF IsGeneratedNoise(p.snd)
                     THEN /\ noiseGenerators' = cache
                          /\ buffers' = IF cache = noiseGenerators
                                        THEN buffers
                                        ELSE Append(buffers,
                                                 CreateNoiseBuffer(p.snd[2], sampleRate))
                          /\ genCount' = IF cache = noiseGenerators
                                         THEN genCount
                                         ELSE [genCount EXCEPT ![p.snd[2]] = @ + 1]
                     ELSE UNCHANGED <<noiseGenerators, buffers, genCount>>
                  /\ lastCmd' = [lastCmd EXCEPT ![L] =
                                    Completed(@, L, q, e2.sources, e2.layers)]
                  /\ last' = NoLast
                  /\ preset' = PresetAfterBody(preset, FALSE,
                                   IF IsGeneratedNoise(p.snd) \/ AudioPath(p.snd) = "null"
                                   THEN 0 ELSE e2.layers[L].audioElement)
    /\ UNCHANGED <<isInitialized, audioContext, sampleRate, masterGain, config, watch, snap, lastIssued>>

\* `await audio.play()` resolves: layer.isPlaying = true on the layer object
\* the call looked up.
PlayResolved(s) ==
    /\ UNCHANGED issued
    /\ s \in DOMAIN sources
    /\ sources[s].state = "starting"
    /\ LET L == sources[s].layer
           s1 == [sources EXCEPT ![s].state = "running"]
       IN /\ sources' = s1
          /\ layers' = IF Has(layers, L) /\ layers[L].ctx = sources[s].ctx
                       THEN [layers EXCEPT ![L].isPlaying = TRUE]
                       ELSE layers
          /\ lastCmd' = [lastCmd EXCEPT ![L] =
                            Completed(@, L, pendingResume, s1,
                                      IF Has(layers, L) /\ layers[L].ctx = sources[s].ctx
                                      THEN [layers EXCEPT ![L].isPlaying = TRUE]
                                      ELSE layers)]
    /\ last' = NoLast
    /\ preset' = PresetAfterPlay(preset, s)
    /\ UNCHANGED <<isInitialized, audioContext, sampleRate, masterGain, noiseGenerators, config,
                   buffers, timers, pendingResume, genCount, watch, snap, lastIssued>>

\* `await audio.play()` rejects, because the file failed to load (the
\* element goes to "failed") or because pause() interrupted it: the catch
\* block runs generateTone(layerId, 220).
PlayRejected(s) ==
    /\ UNCHANGED issued
    /\ s \in DOMAIN sources
    /\ sources[s].state \in {"starting", "aborting"}
    /\ LET L == sources[s].layer
           s1 == [sources EXCEPT ![s].state =
                     IF @ = "starting" THEN "failed" ELSE "stopped"]
           e1 == GenerateTone(Eng(layers, timers, s1), L, audioContext)
       IN /\ layers' = e1.layers
          /\ timers' = e1.timers
          /\ sources' = Collect(e1.sources, e1.layers)
          /\ lastCmd' = [lastCmd EXCEPT ![L] =
                            Completed(@, L, pendingResume, e1.sources, e1.layers)]
          /\ last' = NoLast
    /\ preset' = PresetAfterPlay(preset, s)
    /\ UNCHANGED <<isInitialized, audioContext, sampleRate, masterGain, noiseGenerators, config,
                   buffers, pendingResume, genCount, watch, snap, lastIssued>>

\* stopLayer(layerId), called by the user of the engine.
StopCmd(L) ==
    /\ EngineCommand
    /\ (config.enableCrossfade /\ Has(layers, L) /\ layers[L].isPlaying)
          => Len(timers) + Len(pendingResume) < MaxTimers
    /\ LET e1 == StopLayer(Eng(layers, timers, sources), L, config) IN
       /\ layers' = e1.layers
       /\ timers' = e1.timers
       /\ sources' = Collect(e1.sources, e1.layers)
    /\ watch' = [watch EXCEPT ![L] =
                    IF /\ lastCmd[L].op = "played"
                       /\ config.enableCrossfade
                       /\ Has(layers, L)
                    THEN [on |-> TRUE, left |-> config.fadeDuration]
                    ELSE NoWatch]
    /\ lastCmd' = [lastCmd EXCEPT ![L] = [op |-> "stop", snd |-> NoSound]]
    /\ snap' = NoSnap
    /\ lastIssued' = NoIssued
    /\ last' = IF Has(layers, L) THEN NoLast
               ELSE Returned("stopLayer", L, 0, NoResult)
    /\ UNCHANGED <<isInitialized, audioContext, sampleRate, masterGain, noiseGenerators, config,
                   buffers, pendingResume, genCount>>

\* The setTimeout callback installed by fadeOut: _stopLayerImmediately(layerId).
TimerFire ==
    /\ UNCHANGED issued
    /\ timers # <<>>
    /\ Head(timers).due = 0
    /\ LET e1 == StopLayerImmediately(Eng(layers, Tail(timers), sources), Head(timers).layer) IN
       /\ layers' = e1.layers
       /\ timers' = e1.timers
       /\ sources' = Collect(e1.sources, e1.layers)
    /\ last' = NoLast
    /\ UNCHANGED <<isInitialized, audioContext, sampleRate, masterGain, noiseGenerators, config,
                   buffers, pendingResume, genCount, lastCmd, watch, snap, lastIssued, preset>>

\* setLayerVolume(layerId, volume)
SetLayerVolume(L, v) ==
    /\ EngineCommand
    /\ IF Has(layers, L)
       THEN layers' = [layers EXCEPT ![L] =
                          [@ EXCEPT !.volume = v, !.gain = VolumeGain(layers[L], v)]]
       ELSE UNCHANGED layers
    /\ lastCmd' = [lastCmd EXCEPT ![L] = Touch(@)]
    /\ watch' = [watch EXCEPT ![L] = NoWatch]
    /\ snap' = NoSnap
    /\ lastIssued' = IF Has(layers, L)
                     THEN [op |-> "setLayerVolume", layer |-> L, v |-> v]
                     ELSE NoIssued
    /\ last' = IF Has(layers, L) THEN NoLast
               ELSE Returned("setLayerVolume", L, v, NoResult)
    /\ UNCHANGED <<isInitialized, audioContext, sampleRate, masterGain, noiseGenerators, config,
                   sources, buffers, timers, pendingResume, genCount>>

\* setMasterVolume(volume)
SetMasterVolume(v) ==
    /\ EngineCommand
    /\ masterGain' =
          IF masterGain = NoParam THEN masterGain
          ELSE LinearRampToValueAtTime(
                   SetValueAtTime(CancelScheduledValues(masterGain), masterGain.value),
                   v, RampTicks, "setVolume")
    /\ snap' = NoSnap
    /\ lastIssued' = NoIssued
    /\ last' = NoLast
    /\ UNCHANGED <<isInitialized, audioContext, sampleRate, layers, noiseGenerators, config, sources,
                   buffers, timers, pendingResume, genCount, lastCmd, watch>>

\* getLayerInfo(layerId)
GetLayerInfo(L) ==
    /\ EngineCommand
    /\ last' = Returned("getLayerInfo", L, 0, LayerInfo(layers, L))
    /\ UNCHANGED <<isInitialized, audioContext, sampleRate, masterGain, layers, noiseGenerators,
                   config, sources, buffers, timers, pendingResume, genCount, lastCmd,
                   watch, snap, lastIssued>>

\* getAnalyserData(layerId)
GetAnalyserData(L) ==
    /\ EngineCommand
    /\ last' = Returned("getAnalyserData", L, 0, AnalyserData(layers, L))
    /\ UNCHANGED <<isInitialized, audioContext, sampleRate, masterGain, layers, noiseGenerators,
                   config, sources, buffers, timers, pendingResume, genCount, lastCmd,
                   watch, snap, lastIssued>>

\* stopAll()
StopAll ==
    /\ EngineCommand
    /\ LET S == PlayingLayers(layers) IN
       /\ config.enableCrossfade
             => Len(timers) + Len(pendingResume) + Cardinality(S) <= MaxTimers
       /\ LET e1 == StopEach(Eng(layers, timers, sources), S, config) IN
          /\ layers' = e1.layers
          /\ timers' = e1.timers
          /\ sources' = Collect(e1.sources, e1.layers)
       /\ lastCmd' = [L \in LayerIds |->
                         IF L \in S THEN [op |-> "stop", snd |-> NoSound]
                         ELSE Touch(lastCmd[L])]
       /\ lastIssued' = [op |-> "stopAll", layer |-> "", v |-> 0]
       /\ snap' = IF \E L \in LayerIds : PendingOn(L, pendingResume, sources)
                  THEN NoSnap
                  ELSE [phase |-> "stopped",
                        was |-> [L \in LayerIds |->
                                    IF L \in S
                                    THEN [sound |-> layers[L].currentSound,
                                          volume |-> layers[L].volume]
                                    ELSE NoSnap.was[L]]]
    /\ watch' = [L \in LayerIds |-> NoWatch]
    /\ last' = NoLast
    /\ UNCHANGED <<isInitialized, audioContext, sampleRate, masterGain, noiseGenerators, config,
                   buffers, pendingResume, genCount>>

\* playAll()
PlayAll ==
    /\ EngineCommand
    /\ LET S == ResumableLayers(layers) IN
       /\ Len(pendingResume) + Cardinality(S) <= MaxPending
       /\ Len(timers) + Len(pendingResume) + Cardinality(S) <= MaxTimers
       /\ NeedsAll(IssueEach(<<>>, S, layers)) <= Room(pendingResume, sources)
       /\ pendingResume' = IssueEach(pendingResume, S, layers)
       /\ lastCmd' = [L \in LayerIds |->
                         IF L \in S THEN [op |-> "play", snd |-> layers[L].currentSound]
                         ELSE Touch(lastCmd[L])]
    /\ lastIssued' = NoIssued
    /\ snap' = IF snap.phase = "stopped" THEN [snap EXCEPT !.phase = "resumed"] ELSE NoSnap
    /\ watch' = [L \in LayerIds |-> NoWatch]
    /\ last' = NoLast
    /\ UNCHANGED <<isInitialized, audioContext, sampleRate, masterGain, layers, noiseGenerators,
                   config, sources, buffers, timers, genCount>>

\* The partial configurations the application passes to updateConfig.
ConfigArgs ==
    [fadeDuration : FadeDurations] \cup [enableCrossfade : BOOLEAN] \cup [loopLayers : BOOLEAN]

\* { ...this.config, ...config }
MergeConfig(old, new) ==
    [k \in DOMAIN old |-> IF k \in DOMAIN new THEN new[k] ELSE old[k]]

\* An updateConfig that merges the options and leaves the media elements
\* already bound as they are.
UpdateConfigLazy(c) ==
    /\ EngineCommand
    /\ config' = MergeConfig(config, c)
    /\ snap' = NoSnap
    /\ lastIssued' = NoIssued
    /\ last' = NoLast
    /\ UNCHANGED <<isInitialized, audioContext, sampleRate, masterGain, layers, noiseGenerators,
                   sources, buffers, timers, pendingResume, genCount, lastCmd, watch>>

\* updateConfig(config)
UpdateConfig(c) ==
    /\ EngineCommand
    /\ config' = MergeConfig(config, c)
    /\ sources' = IF "loopLayers" \in DOMAIN c
                  THEN [i \in DOMAIN sources |->
                           IF \E L \in DOMAIN layers : layers[L].audioElement = i
                           THEN [sources[i] EXCEPT !.loop = c.loopLayers]
                           ELSE sources[i]]
                  ELSE sources
    /\ snap' = NoSnap
    /\ lastIssued' = NoIssued
    /\ last' = NoLast
    /\ UNCHANGED <<isInitialized, audioContext, sampleRate, masterGain, layers, noiseGenerators,
                   buffers, timers, pendingResume, genCount, lastCmd, watch>>

\* The sources that some layer of ls refers to.
BoundIn(ls) ==
    UNION {{ls[L].audioElement, ls[L].noiseSource, ls[L].sourceNode} \ {0} : L \in DOMAIN ls}

\* dispose()
Dispose ==
    /\ EngineCommand
    /\ LET S == PlayingLayers(layers) IN
       /\ config.enableCrossfade
             => Len(timers) + Len(pendingResume) + Cardinality(S) <= MaxTimers
       /\ LET e1 == StopEach(Eng(layers, timers, sources), S, config)
              marked == [i \in DOMAIN sources |->
                            IF i \in BoundIn(layers) /\ sources[i].state = "running"
                            THEN [e1.sources[i] EXCEPT !.atDispose = TRUE]
                            ELSE e1.sources[i]]
          IN /\ timers' = e1.timers
             /\ sources' = Collect(marked, EmptyMap)
    /\ layers' = EmptyMap
    /\ noiseGenerators' = EmptyMap
    /\ isInitialized' = FALSE
    /\ genCount' = [c \in NoiseColors |-> 0]
    /\ lastCmd' = [L \in LayerIds |-> NoCmd]
    /\ watch' = [L \in LayerIds |-> NoWatch]
    /\ snap' = NoSnap
    /\ lastIssued' = NoIssued
    /\ last' = NoLast
    /\ UNCHANGED <<audioContext, sampleRate, masterGain, config, buffers, pendingResume>>

\* The elements of a sequence.
Range(q) == {q[i] : i \in 1..Len(q)}

\* loadPreset(presetName) of the application, up to its first
\* `await this.playLayer(...)`: initialize() if needed, handleStopAll(), then
\* the loop over the layers.
LoadPreset(p) ==
    /\ Command
    /\ ~isInitialized => audioContext < MaxContexts
    /\ LET ctx == IF isInitialized THEN audioContext ELSE audioContext + 1
           S == PlayingLayers(layers)
           e1 == StopEach(Eng(layers, timers, sources), S, config)
           r == ApplyPreset(e1.layers, LayerOrder, p, ctx)
           srcs == Collect(e1.sources, r.layers)
       IN /\ config.enableCrossfade
                => Len(timers) + Len(pendingResume) + Cardinality(S) <= MaxTimers
          /\ r.play # NoPlay =>
                /\ Len(pendingResume) < MaxPending
                /\ Len(e1.timers) + Len(pendingResume) < MaxTimers
                /\ Needs(r.play.snd) <= Room(pendingResume, srcs)
          /\ audioContext' = ctx
          /\ sampleRate' = IF isInitialized THEN sampleRate ELSE SampleRateDefault
          /\ masterGain' = IF isInitialized THEN masterGain ELSE Param(MasterDefault)
          /\ isInitialized' = TRUE
          /\ layers' = r.layers
          /\ timers' = e1.timers
          /\ sources' = srcs
          /\ pendingResume' = IF r.play = NoPlay THEN pendingResume
                              ELSE Append(pendingResume, r.play)
          /\ preset' = LET raced == \E L \in LayerIds : PendingOn(L, pendingResume, sources)
                       IN IF r.play = NoPlay
                          THEN [NoPreset EXCEPT !.phase = "done", !.name = p,
                                                !.raced = raced]
                          ELSE [phase |-> "run", name |-> p, todo |-> r.todo,
                                pos |-> Len(pendingResume) + 1, slot |-> 0,
                                raced |-> raced]
          /\ lastCmd' = [L \in LayerIds |->
                            IF L = r.play.layer THEN [op |-> "play", snd |-> r.play.snd]
                            ELSE IF L \in S THEN [op |-> "stop", snd |-> NoSound]
                            ELSE Touch(lastCmd[L])]
    /\ watch' = [L \in LayerIds |-> NoWatch]
    /\ snap' = NoSnap
    /\ lastIssued' = NoIssued
    /\ last' = NoLast
    /\ UNCHANGED <<noiseGenerators, config, buffers, genCount>>

\* loadPreset after the play it awaited has completed: the loop goes on with
\* the layers left, to the next await or to its end.  createLayer throws if
\* the engine has been disposed of in the meantime.
PresetStep ==
    /\ UNCHANGED issued
    /\ preset.phase = "run"
    /\ preset.pos = 0
    /\ preset.slot = 0
    /\ IF preset.todo = <<>>
       THEN /\ preset' = Finished(preset)
            /\ last' = NoLast
            /\ UNCHANGED <<layers, pendingResume, lastCmd, watch, snap, lastIssued>>
       ELSE IF ~isInitialized
       THEN /\ preset' = Failed(preset)
            /\ last' = Raised("loadPreset", Head(preset.todo), 0)
            /\ UNCHANGED <<layers, pendingResume, lastCmd, watch, snap, lastIssued>>
       ELSE LET r == ApplyPreset(layers, preset.todo, preset.name, audioContext)
                visited == Range(preset.todo) \ Range(r.todo)
            IN /\ r.play # NoPlay =>
                     /\ Len(pendingResume) < MaxPending
                     /\ Len(timers) + Len(pendingResume) < MaxTimers
                     /\ Needs(r.play.snd) <= Room(pendingResume, sources)
               /\ layers' = r.layers
               /\ pendingResume' = IF r.play = NoPlay THEN pendingResume
                                   ELSE Append(pendingResume, r.play)
               /\ preset' = IF r.play = NoPlay THEN Finished(preset)
                            ELSE [preset EXCEPT !.todo = r.todo,
                                                !.pos = Len(pendingResume) + 1]
               /\ lastCmd' = [L \in LayerIds |->
                                 IF L = r.play.layer
                                 THEN [op |-> "play", snd |-> r.play.snd]
                                 ELSE IF L \in visited THEN Touch(lastCmd[L])
                                 ELSE lastCmd[L]]
               /\ watch' = [L \in LayerIds |->
                               IF L \in visited THEN NoWatch ELSE watch[L]]
               /\ snap' = NoSnap
               /\ lastIssued' = NoIssued
               /\ last' = NoLast
    /\ UNCHANGED <<isInitialized, audioContext, sampleRate, masterGain, noiseGenerators, config,
                   sources, buffers, timers, genCount>>

\* Ticks until the next timer is due or the next ramp ends; 0 if none is pending.
Horizon ==
    LET ts == {timers[i].due : i \in 1..Len(timers)}
              \cup {Head(layers[L].gain.events).t : L \in {x \in DOMAIN layers : layers[x].gain.events # <<>>}}
              \cup (IF masterGain.events # <<>> THEN {Head(masterGain.events).t} ELSE {})
    IN IF ts = {} THEN 0 ELSE CHOOSE m \in ts : \A x \in ts : m <= x

\* Time passes: to the next timer or ramp end, or to the middle of a fade
\* that has just been scheduled.  A due timer fires before time moves on.
Advance(d) ==
    /\ UNCHANGED issued
    /\ Horizon > 0
    /\ d \in {Horizon} \cup (IF Horizon \in FadeDurations THEN {Horizon \div 2} ELSE {})
    /\ timers' = [i \in 1..Len(timers) |-> [timers[i] EXCEPT !.due = @ - d]]
    /\ layers' = [L \in DOMAIN layers |-> [layers[L] EXCEPT !.gain = ParamAfter(@, d)]]
    /\ masterGain' = IF masterGain = NoParam THEN masterGain ELSE ParamAfter(masterGain, d)
    /\ watch' = [L \in LayerIds |->
                    IF watch[L].on
                    THEN [watch[L] EXCEPT !.left = IF @ > d THEN @ - d ELSE 0]
                    ELSE watch[L]]
    /\ last' = NoLast
    /\ UNCHANGED <<isInitialized, audioContext, sampleRate, noiseGenerators, config, sources,
                   buffers, pendingResume, genCount, lastCmd, snap, lastIssued, preset>>

Next ==
    \/ Initialize
    \/ \E L \in LayerIds, v \in VolumeArgs : CreateLayer(L, v)
    \/ \E L \in LayerIds, snd \in SoundArgs : PlayIssue(L, snd)
    \/ PlayResume
    \/ \E s \in 1..MaxSources : PlayResolved(s)
    \/ \E s \in 1..MaxSources : PlayRejected(s)
    \/ \E L \in LayerIds : StopCmd(L)
    \/ TimerFire
    \/ \E L \in LayerIds, v \in VolumeArgs : SetLayerVolume(L, v)
    \/ \E v \in VolumeArgs : SetMasterVolume(v)
    \/ StopAll
    \/ PlayAll
    \/ \E c \in ConfigArgs : UpdateConfig(c)
    \/ Dispose
    \/ \E d \in 1..FadeDefault : Advance(d)

Spec == Init /\ [][Next]_vars

\* The engine driven by the application: layers toggled, volumes and
\* settings changed and the engine's state read by hand, the engine disposed
\* of when the page is about to unload, then a preset loaded.
NextApp ==
    \/ Initialize
    \/ \E L \in LayerIds : CreateLayer(L, LayerDefault)
    \/ \E L \in LayerIds, snd \in SoundArgs : PlayIssue(L, snd)
    \/ PlayResume
    \/ \E s \in 1..MaxSources : PlayResolved(s)
    \/ \E s \in 1..MaxSources : PlayRejected(s)
    \/ \E L \in LayerIds : StopCmd(L)
    \/ TimerFire
    \/ \E L \in LayerIds : SetLayerVolume(L, LayerDefault)
    \/ \E L \in LayerIds : GetLayerInfo(L)
    \/ \E L \in LayerIds : GetAnalyserData(L)
    \/ \E c \in [enableCrossfade : BOOLEAN] : UpdateConfig(c)
    \/ Dispose
    \/ \E p \in DOMAIN Presets : LoadPreset(p)
    \/ PresetStep
    \/ \E d \in 1..FadeDefault : Advance(d)

SpecApp == Init /\ [][NextApp]_vars

\* The engine playing generated noise on devices of either sample rate, with
\* the sampleRate option updated at run time.
NextNoise ==
    \/ \E r \in SampleRates : InitializeAt(r)
    \/ \E L \in LayerIds : CreateLayer(L, LayerDefault)
    \/ \E L \in LayerIds, c \in NoiseColors : PlayIssue(L, <<"noise", c>>)
    \/ PlayResume
    \/ \E L \in LayerIds : StopCmd(L)
    \/ TimerFire
    \/ \E c \in [sampleRate : SampleRates] : UpdateConfig(c)
    \/ Dispose
    \/ \E d \in 1..FadeDefault : Advance(d)

SpecNoise == Init /\ [][NextNoise]_vars

\* ============================================================ properties
\* The sources bound to layer L through any of its three references.
Bound(L) == {layers[L].audioElement, layers[L].noiseSource, layers[L].sourceNode} \ {0}

\* Nothing is pending: no suspended play, no play promise, no timer.
Quiet ==
    /\ pendingResume = <<>>
    /\ timers = <<>>
    /\ \A i \in DOMAIN sources : sources[i].state \notin {"starting", "aborting"}

\* What a play of snd, taken alone, leaves as currentSound.
PlayOutcomes(snd) ==
    IF IsGeneratedNoise(snd) THEN {snd}
    ELSE IF AudioPath(snd) = "null" THEN {Tone220}
    ELSE {snd, Tone220}

\* C1: a teardown timer installed before a later play bound a new source on
\* its layer leaves that source bound and the layer playing when it fires
\* (no stop having been issued on the layer since that play).
C1_StaleTimerSparesNewSource ==
    [][(TimerFire /\ Head(timers).superseded)
         => LET L == Head(timers).layer IN
            (Has(layers, L) /\ layers[L].sourceNode # 0
               /\ lastCmd[L].op \in {"play", "played"})
              => /\ layers'[L].sourceNode = layers[L].sourceNode
                 /\ layers'[L].isPlaying = layers[L].isPlaying
                 /\ layers'[L].currentSound = layers[L].currentSound
                 /\ sources'[layers[L].sourceNode] = sources[layers[L].sourceNode]]_vars

\* C2: every layer has at most one source that is started and not stopped.
C2_AtMostOneActiveSource ==
    \A L \in DOMAIN layers :
        Cardinality({i \in DOMAIN sources :
                        /\ sources[i].layer = L
                        /\ sources[i].ctx = layers[L].ctx
                        /\ sources[i].state = "running"}) <= 1

\* C3: when a teardown timer stops a running source of its layer (a source
\* no later play has replaced), the layer's gain is 0.
C3_GainZeroAtTeardown ==
    [][(TimerFire /\ ~Head(timers).superseded)
         => LET L == Head(timers).layer IN
            (Has(layers, L) /\ \E i \in Bound(L) : sources[i].state = "running")
              => layers[L].gain.value = 0]_vars

\* C4: after a stop that directly follows a completed play, crossfade on and
\* nothing else issued on the layer: the source stays bound and running until
\* fadeDuration has elapsed, the gain is 0 when it has, and the layer is torn
\* down once the timer due then has fired.
C4_StopFadesThenTearsDown ==
    \A L \in LayerIds :
        watch[L].on =>
            /\ watch[L].left > 0 =>
                  /\ Has(layers, L)
                  /\ layers[L].isPlaying
                  /\ layers[L].sourceNode # 0
                  /\ sources[layers[L].sourceNode].state = "running"
            /\ watch[L].left = 0 =>
                  /\ Has(layers, L)
                  /\ layers[L].gain.value = 0
                  /\ (\A k \in 1..Len(timers) : ~(timers[k].layer = L /\ timers[k].due = 0))
                        => /\ layers[L].sourceNode = 0
                           /\ layers[L].currentSound = NoSound
                           /\ ~layers[L].isPlaying

\* C5: after stopAll() then playAll(), once nothing is pending, exactly the
\* layers that were playing at stopAll() play again, the same sound at the
\* same volume.
C5_PlayAllRestores ==
    (snap.phase = "resumed" /\ Quiet) =>
        \A L \in LayerIds :
            IF snap.was[L].sound # NoSound
            THEN /\ Has(layers, L)
                 /\ layers[L].isPlaying
                 /\ layers[L].currentSound \in {snap.was[L].sound, Tone220}
                 /\ layers[L].volume = snap.was[L].volume
            ELSE ~(Has(layers, L) /\ layers[L].isPlaying)

\* C6: once nothing is pending, a layer is in the state that the last command
\* issued on it produces: stopped after a stop, and after a play not playing
\* anything but what that play binds.
C6_IssuanceOrder ==
    Quiet =>
        \A L \in DOMAIN layers :
            /\ lastCmd[L].op = "stop" =>
                  /\ ~layers[L].isPlaying
                  /\ layers[L].sourceNode = 0
                  /\ layers[L].currentSound = NoSound
            /\ (lastCmd[L].op \in {"play", "played"} /\ layers[L].isPlaying) =>
                  layers[L].currentSound \in PlayOutcomes(lastCmd[L].snd)

\* C7: a stop on a layer whose bound source is fading in, crossfade on,
\* leaves exactly one scheduled value on the gain: the fade-out ramp to 0.
C7_StopCancelsFadeIn ==
    [][\A L \in DOMAIN layers :
          (/\ StopCmd(L)
           /\ config.enableCrossfade
           /\ layers[L].sourceNode # 0
           /\ \E k \in 1..Len(layers[L].gain.events) : layers[L].gain.events[k].by = "fadeIn")
            => layers'[L].gain.events =
                   <<[target |-> 0, t |-> config.fadeDuration, by |-> "fadeOut"]>>]_vars

\* C8: a play of generated noise that binds its source with crossfade
\* disabled leaves the gain at the stored volume.
C8_NoCrossfadeAppliesVolume ==
    [][\A L \in DOMAIN layers :
          (/\ PlayResume
           /\ ~config.enableCrossfade
           /\ lastCmd[L].op = "play"
           /\ IsGeneratedNoise(lastCmd[L].snd)
           /\ lastCmd'[L].op = "played")
            => layers'[L].gain.value = layers'[L].volume]_vars

\* C9: stored volumes, gain values and ramp targets lie in [0, 1].
InUnit(v) == v >= 0 /\ v <= GainOne

ParamInUnit(p) ==
    /\ InUnit(p.value)
    /\ \A k \in 1..Len(p.events) : InUnit(p.events[k].target)

C9_GainsClamped ==
    /\ \A L \in DOMAIN layers : InUnit(layers[L].volume) /\ ParamInUnit(layers[L].gain)
    /\ masterGain # NoParam => ParamInUnit(masterGain)

\* C10: while the engine is initialized each colour's buffer has been
\* generated at most once, and every noise source of the current context
\* plays the cached buffer of its colour.
C10_NoiseMemoized ==
    /\ \A c \in NoiseColors : genCount[c] <= 1
    /\ isInitialized =>
          \A i \in DOMAIN sources :
              (sources[i].kind = "buffer" /\ sources[i].ctx = audioContext)
                => /\ sources[i].color \in DOMAIN noiseGenerators
                   /\ sources[i].buffer = noiseGenerators[sources[i].color]

\* A colour has been played twice since initialize(): two of its sources are alive.
C10_Witness ==
    /\ isInitialized
    /\ \E i, j \in DOMAIN sources :
          /\ i # j
          /\ sources[i].kind = "buffer" /\ sources[j].kind = "buffer"
          /\ sources[i].color = sources[j].color
          /\ sources[i].ctx = audioContext /\ sources[j].ctx = audioContext
          /\ sources[i].buffer = sources[j].buffer

\* C11: createLayer on an id already in the registry returns the existing
\* layer, throws nothing, and changes neither the registry, nor any field of
\* the layer (volume, gain, isPlaying, currentSound, bound source), nor any
\* source, whatever volume it is given.
C11_CreateLayerIdempotent ==
    [][\A L \in LayerIds, v \in VolumeArgs :
          (CreateLayer(L, v) /\ Has(layers, L))
            => /\ layers' = layers
               /\ sources' = sources
               /\ ~last'.raised
               /\ last'.result = LayerInfo(layers, L)]_vars

\* createLayer has just returned a playing layer whose stored volume is not
\* the volume it was called with: the layer was there before the call.
C11_Witness ==
    /\ last.op = "createLayer"
    /\ ~last.raised
    /\ Has(layers, last.layer)
    /\ layers[last.layer].isPlaying
    /\ layers[last.layer].volume # last.v

\* C12 as stated: setLayerVolume(L, v) on a layer that is not playing sets the
\* stored volume to v and leaves the gain, value and schedule, as it was.
C12_IdleVolumeLeavesGain ==
    [][\A L \in DOMAIN layers, v \in VolumeArgs :
          (SetLayerVolume(L, v) /\ ~layers[L].isPlaying)
            => /\ layers'[L].volume = v
               /\ layers'[L].gain = layers[L].gain]_vars

\* C12 amended: setLayerVolume(L, v) on a layer that is not playing sets the
\* stored volume to v, schedules no ramp and cancels none, and sets the gain
\* value to v at once.
C12_IdleVolumeSetsGain ==
    [][\A L \in DOMAIN layers, v \in VolumeArgs :
          (SetLayerVolume(L, v) /\ ~layers[L].isPlaying)
            => /\ layers'[L].volume = v
               /\ layers'[L].gain.events = layers[L].gain.events
               /\ layers'[L].gain.value = v]_vars

\* A layer that is not playing holds a fade-in towards another volume than
\* the stored one, and its gain value is the stored volume: the volume was
\* set after the fade-in was scheduled and before the layer was playing.
C12_Witness ==
    \E L \in DOMAIN layers :
        /\ ~layers[L].isPlaying
        /\ layers[L].gain.value = layers[L].volume
        /\ layers[L].gain.events # <<>>
        /\ \A k \in 1..Len(layers[L].gain.events) :
              /\ layers[L].gain.events[k].by = "fadeIn"
              /\ layers[L].gain.events[k].target # layers[L].volume

\* Layer L of ls plays the 220 Hz tone from a running oscillator.
TonePlaying(ls, srcs, L) ==
    /\ Has(ls, L)
    /\ ls[L].isPlaying
    /\ ls[L].currentSound = Tone220
    /\ ls[L].sourceNode # 0
    /\ srcs[ls[L].sourceNode].kind = "osc"
    /\ srcs[ls[L].sourceNode].state = "running"

\* C13: a play on a registered layer L of a sound the catalog does not hold
\* returns without throwing with L playing the 220 Hz tone, and so does the
\* catch block that runs when the media element's play() is rejected.
C13_FailureFallsBackToTone ==
    [][/\ (/\ PlayResume
           /\ Has(layers, Head(pendingResume).layer)
           /\ ~IsGeneratedNoise(Head(pendingResume).snd)
           /\ AudioPath(Head(pendingResume).snd) = "null")
          => /\ TonePlaying(layers', sources', Head(pendingResume).layer)
             /\ ~last'.raised
       /\ \A s \in DOMAIN sources :
             (PlayRejected(s) /\ Has(layers, sources[s].layer))
               => /\ TonePlaying(layers', sources', sources[s].layer)
                  /\ ~last'.raised]_vars

\* The last play on a layer was of a catalog file, it has completed, and the
\* layer plays the tone: the media element's play() was rejected.
C13_Witness ==
    \E L \in DOMAIN layers :
        /\ lastCmd[L].op = "played"
        /\ AudioPath(lastCmd[L].snd) = "file"
        /\ TonePlaying(layers, sources, L)

\* C14: after a play of a sound the catalog does not hold has completed on L,
\* and with nothing issued on L since, L is playing and, if its stored volume
\* is positive, its gain is neither at 0 with nothing scheduled nor ramping
\* to 0.
C14_FallbackAudible ==
    \A L \in DOMAIN layers :
        (/\ lastCmd[L].op = "played"
         /\ ~IsGeneratedNoise(lastCmd[L].snd)
         /\ AudioPath(lastCmd[L].snd) = "null")
          => /\ layers[L].isPlaying
             /\ layers[L].volume > 0 =>
                   /\ ~(layers[L].gain.value = 0 /\ layers[L].gain.events = <<>>)
                   /\ \A k \in 1..Len(layers[L].gain.events) :
                         layers[L].gain.events[k].target # 0

\* C15: stopLayer, setLayerVolume, getLayerInfo and getAnalyserData on an id
\* that is not in the registry throw nothing, return null where they return
\* a value, and leave the registry, the layers, the timers, the master gain,
\* the noise cache and the sources as they were.
C15_UnknownLayerNoOp ==
    [][\A L \in LayerIds :
          (/\ ~Has(layers, L)
           /\ \/ StopCmd(L)
              \/ \E v \in VolumeArgs : SetLayerVolume(L, v)
              \/ GetLayerInfo(L)
              \/ GetAnalyserData(L))
            => /\ UNCHANGED <<layers, timers, masterGain, noiseGenerators, sources>>
               /\ ~last'.raised
               /\ last'.result = NoResult]_vars

\* One of the four calls has just been made on an unknown id while another
\* layer is fading out.
C15_Witness ==
    /\ last.op \in {"stopLayer", "setLayerVolume", "getLayerInfo", "getAnalyserData"}
    /\ ~Has(layers, last.layer)
    /\ layers # EmptyMap
    /\ timers # <<>>

\* C16: no call other than initialize() throws.
C16_OnlyInitializeRaises == last.raised => last.op = "initialize"

\* C17: a stop on L that follows a stop on L which itself directly followed a
\* completed play, crossfade on and nothing else issued on L in between,
\* leaves L's fields, its gain schedule and the pending timers as they were;
\* a dispose() of a disposed engine leaves the engine as it was.
C17_SecondStopAndDisposeNoOps ==
    [][/\ \A L \in DOMAIN layers :
             (StopCmd(L) /\ watch[L].on /\ lastCmd[L].op = "stop")
               => /\ layers'[L] = layers[L]
                  /\ timers' = timers
       /\ (Dispose /\ ~isInitialized /\ audioContext > 0)
             => UNCHANGED <<isInitialized, audioContext, masterGain, layers,
                            noiseGenerators, config, sources, timers>>]_vars

\* C18: once no timer is pending, every source that was bound to a layer and
\* started when dispose() ran has been stopped.
C18_DisposeStopsSources ==
    timers = <<>> =>
        \A i \in DOMAIN sources :
            sources[i].atDispose => sources[i].state \in {"stopped", "failed"}

\* C19: while a disposed engine stays uninitialized, the registry and the
\* noise cache stay empty, no source is created, and nothing but the passing
\* of time changes the master gain.
C19_DisposedEngineUnusable ==
    [][(~isInitialized /\ audioContext > 0 /\ ~isInitialized')
         => /\ layers = EmptyMap /\ layers' = EmptyMap
            /\ noiseGenerators = EmptyMap /\ noiseGenerators' = EmptyMap
            /\ \A i \in DOMAIN sources : sources[i] = Free => sources'[i] = Free
            /\ (\A d \in 1..FadeDefault : ~Advance(d)) => masterGain' = masterGain]_vars

\* C20: once loadPreset(p), called while no play was pending, has returned and
\* nothing is pending, every layer for which p names a sound is playing, some
\* sound bound, at p's volume.
C20_PresetPlays ==
    (preset.phase = "done" /\ ~preset.raced /\ Quiet) =>
        \A L \in LayerIds :
            Presets[preset.name][L].sound # "" =>
                /\ Has(layers, L)
                /\ layers[L].isPlaying
                /\ layers[L].currentSound # NoSound
                /\ layers[L].volume = Presets[preset.name][L].volume

\* C21: at most one ramp is scheduled on any layer gain and on the master
\* gain: fadeIn, fadeOut, setLayerVolume on a playing layer and
\* setMasterVolume cancel what is scheduled before they schedule their ramp.
C21_AtMostOneRamp ==
    /\ \A L \in DOMAIN layers : Len(layers[L].gain.events) <= 1
    /\ Len(masterGain.events) <= 1

\* A setLayerVolume ramp is the one ramp on the gain of a layer whose
\* fade-out timer has not come due: it replaced the fade-out ramp, which
\* had not run to its end.
C21_Witness ==
    \E L \in DOMAIN layers :
        /\ Len(layers[L].gain.events) = 1
        /\ layers[L].gain.events[1].by = "setVolume"
        /\ \E k \in 1..Len(timers) :
              timers[k].layer = L /\ timers[k].due > 0 /\ ~timers[k].superseded

\* C22: a layer whose isPlaying flag is true has a bound source and a
\* currentSound; and when the play() promise of a media element settles on a
\* registered layer that a stop, the last command on it, has torn down, the
\* continuation of the play leaves the layer not playing.
C22_PlayingHasSource ==
    /\ [](\A L \in DOMAIN layers :
             layers[L].isPlaying
               => /\ layers[L].sourceNode # 0
                  /\ sources[layers[L].sourceNode] # Free
                  /\ layers[L].currentSound # NoSound)
    /\ [][\A s \in DOMAIN sources :
             (/\ PlayResolved(s) \/ PlayRejected(s)
              /\ Has(layers, sources[s].layer)
              /\ layers[sources[s].layer].ctx = sources[s].ctx
              /\ lastCmd[sources[s].layer].op = "stop"
              /\ layers[sources[s].layer].sourceNode = 0
              /\ ~layers[sources[s].layer].isPlaying)
               => ~layers'[sources[s].layer].isPlaying]_vars

\* C23: a teardown timer installed before dispose() that fires on a layer
\* created after a later initialize() leaves that layer's source references,
\* currentSound and isPlaying, and the sources, as they were.
C23_OldTimerSparesNewLayer ==
    [][(/\ TimerFire
        /\ Has(layers, Head(timers).layer)
        /\ layers[Head(timers).layer].ctx # Head(timers).ctx)
         => LET L == Head(timers).layer IN
            /\ layers'[L].audioElement = layers[L].audioElement
            /\ layers'[L].noiseSource = layers[L].noiseSource
            /\ layers'[L].sourceNode = layers[L].sourceNode
            /\ layers'[L].currentSound = layers[L].currentSound
            /\ layers'[L].isPlaying = layers[L].isPlaying
            /\ sources' = sources]_vars

\* C24: after setLayerVolume(L, v) on a registered layer and no command
\* since, once no play is pending and no ramp is left on L's gain, L's gain
\* is v if L is playing.
C24_GainFollowsVolume ==
    LET L == lastIssued.layer IN
    (/\ lastIssued.op = "setLayerVolume"
     /\ Has(layers, L)
     /\ pendingResume = <<>>
     /\ \A i \in DOMAIN sources : sources[i].state \notin {"starting", "aborting"}
     /\ layers[L].gain.events = <<>>
     /\ layers[L].isPlaying)
      => layers[L].gain.value = lastIssued.v

\* C25: after stopAll() and no command since, once no timer and no play is
\* pending, no layer is playing.
C25_StopAllSilences ==
    (lastIssued.op = "stopAll" /\ Quiet)
      => \A L \in DOMAIN layers : ~layers[L].isPlaying

\* The gain p after a ramp to v over 50 ms has been scheduled on it in place
\* of whatever was scheduled.
RampedTo(p, v) ==
    [p EXCEPT !.events = <<[target |-> v, t |-> RampTicks, by |-> "setVolume"]>>]

\* C26: setMasterVolume(v) on an initialized engine and setLayerVolume(L, v)
\* on a playing layer leave on the gain one ramp, from the current value to v
\* over 50 ms, whatever enableCrossfade and fadeDuration are.
C26_VolumeRampFixed ==
    [][/\ \A v \in VolumeArgs :
             (SetMasterVolume(v) /\ isInitialized)
               => masterGain' = RampedTo(masterGain, v)
       /\ \A L \in DOMAIN layers, v \in VolumeArgs :
             (SetLayerVolume(L, v) /\ layers[L].isPlaying)
               => layers'[L].gain = RampedTo(layers[L].gain, v)]_vars

\* With crossfade disabled, a playing layer's gain holds the ramp of
\* setLayerVolume, just scheduled.
C26_Witness ==
    /\ ~config.enableCrossfade
    /\ lastIssued.op = "setLayerVolume"
    /\ Has(layers, lastIssued.layer)
    /\ layers[lastIssued.layer].isPlaying
    /\ layers[lastIssued.layer].gain.events =
          <<[target |-> lastIssued.v, t |-> RampTicks, by |-> "setVolume"]>>

\* A layer with nothing bound: no media element, no noise source, no source
\* node, no currentSound, not playing.
Stopped(lay) ==
    /\ lay.audioElement = 0
    /\ lay.noiseSource = 0
    /\ lay.sourceNode = 0
    /\ lay.currentSound = NoSound
    /\ ~lay.isPlaying

\* C27: in every reachable state, teardown of a registered layer L leaves L
\* stopped, with its volume and gain as they were, leaves the other layers
\* and the timers as they were, and changes nothing at all if L is stopped
\* already; and the step of a teardown timer on a registered layer leaves the
\* layer so.
C27_TeardownClears ==
    /\ [](\A L \in DOMAIN layers :
             LET e == Eng(layers, timers, sources)
                 e1 == StopLayerImmediately(e, L)
             IN /\ DOMAIN e1.layers = DOMAIN layers
                /\ Stopped(e1.layers[L])
                /\ e1.layers[L].volume = layers[L].volume
                /\ e1.layers[L].gain = layers[L].gain
                /\ \A M \in DOMAIN layers : M # L => e1.layers[M] = layers[M]
                /\ e1.timers = timers
                /\ Stopped(layers[L]) => e1 = e)
    /\ [][(TimerFire /\ Has(layers, Head(timers).layer))
            => LET L == Head(timers).layer IN
               /\ DOMAIN layers' = DOMAIN layers
               /\ Stopped(layers'[L])
               /\ layers'[L].volume = layers[L].volume
               /\ Stopped(layers[L]) => (layers' = layers /\ sources' = sources)]_vars

\* A stop with crossfade directly followed a completed play, fadeDuration has
\* elapsed and the timer has fired: the layer is stopped, its gain at 0 and
\* its stored volume still positive.
C27_Witness ==
    \E L \in DOMAIN layers :
        /\ watch[L].on
        /\ watch[L].left = 0
        /\ \A k \in 1..Len(timers) : timers[k].layer # L
        /\ Stopped(layers[L])
        /\ layers[L].gain.value = 0
        /\ layers[L].volume > 0

\* C28: the media element bound on any layer has its loop flag equal to the
\* loopLayers option, whether it was bound before or after the option was
\* last set; updateConfig with loopLayers = b sets the option to b, and an
\* updateConfig without loopLayers leaves the option and every source as
\* they were.
C28_LoopRetroactive ==
    /\ [](\A L \in DOMAIN layers :
             layers[L].audioElement # 0
               => sources[layers[L].audioElement].loop = config.loopLayers)
    /\ [][\A c \in ConfigArgs :
             UpdateConfig(c)
               => IF "loopLayers" \in DOMAIN c
                  THEN config'.loopLayers = c.loopLayers
                  ELSE /\ config'.loopLayers = config.loopLayers
                       /\ sources' = sources]_vars

\* loopLayers has been set to false, and the media element that a layer
\* plays does not loop.
C28_Witness ==
    /\ ~config.loopLayers
    /\ \E L \in DOMAIN layers :
          /\ layers[L].isPlaying
          /\ layers[L].audioElement # 0
          /\ sources[layers[L].audioElement].kind = "media"
          /\ sources[layers[L].audioElement].state = "running"
          /\ ~sources[layers[L].audioElement].loop

\* C29: every noise buffer, of any colour, is generated with a length of
\* 2 times the sampleRate option that is configured when it is generated.
C29_BufferTwoSeconds ==
    [][Len(buffers') > Len(buffers)
         => buffers'[Len(buffers')] = 2 * config.sampleRate]_vars

\* C30: initialize() on an initialized engine creates no context and no
\* master gain, and leaves the master gain, the registry, the noise cache,
\* the configuration, the sources and the timers as they were.
C30_InitializeIdempotent ==
    [][(isInitialized /\ \E r \in SampleRates : InitializeAt(r))
         => /\ UNCHANGED <<isInitialized, audioContext, sampleRate, masterGain, layers,
                           noiseGenerators, config, sources, buffers, timers>>
            /\ ~last'.raised]_vars

\* initialize() has just returned early on an engine that has a layer and a
\* ramp pending on its master gain.
C30_Witness ==
    /\ last.op = "initialize"
    /\ isInitialized
    /\ layers # EmptyMap
    /\ masterGain.events # <<>>

====
